---- MODULE Spec2Model ----
(***************************************************************************)
(* A model of src/main.py: the compiler compile_to_workflows, which lowers *)
(* a Workflow Graph (nodes, edges) to a step program, and the execution of *)
(* the emitted step program (try/except, switch, parallel branches,        *)
(* parallel for) as far as the emitted steps determine it.                 *)
(***************************************************************************)
EXTENDS Integers, Sequences, FiniteSets, TLC

(***************************************************************************)
(* Bounds of the input universe: the edges of a graph, the length of the   *)
(* iterable of a For-Loop task, the larger of the two values of parallel.  *)
(***************************************************************************)
MaxEdges == 2

MaxIter == 2

MaxParallel == 2

\* the id that no node of a graph has
UnknownId == "nx"

(***************************************************************************)
(* Tasks.  isinstance(task, BaseTask) is the field base.                   *)
(***************************************************************************)
SleepTask == [type |-> "SleepTask", base |-> TRUE, name |-> "sys.sleep",
              args |-> [seconds |-> 1]]

LogTask == [type |-> "LogTask", base |-> TRUE, name |-> "sys.log",
            args |-> [text |-> "ok"]]

HttpTask == [type |-> "HttpTask", base |-> TRUE, name |-> "http.request",
             args |-> [method |-> "GET", url |-> "https://google.com"]]

ForLoopTask(nodes, key, iterable, parallel) ==
    [type |-> "ForLoopTask", base |-> FALSE, nodes |-> nodes, key |-> key,
     iterable |-> iterable, parallel |-> parallel]

SetVariablesTask(data) ==
    [type |-> "SetVariablesTask", base |-> FALSE, data |-> data]

Node(id, task) == [id |-> id, task |-> task]

Edge(source, target, condition) ==
    [source |-> source, target |-> target, condition |-> condition]

(***************************************************************************)
(* Node.get_as_dict                                                        *)
(***************************************************************************)
\* The assign list of assign_success_node_<id> / assign_error_node_<id>:
\* results["<id>"] = {}, results["<id>"].status = <status>,
\* results["<id>"].output = ${<var>}
AssignResult(id, status, var) ==
    << [key |-> id, field |-> "", expr |-> [type |-> "empty", val |-> ""]],
       [key |-> id, field |-> "status", expr |-> [type |-> "lit", val |-> status]],
       [key |-> id, field |-> "output", expr |-> [type |-> "ref", val |-> var]] >>

\* isinstance(self.task, BaseTask): the guarded call block
ExecuteStep(node) ==
    [kind |-> "try", name |-> "execute_" \o node.id,
     try |-> [steps |-> <<
        [kind |-> "call", name |-> "call_node_" \o node.id,
         call |-> node.task.name, result |-> node.id \o "_results",
         args |-> node.task.args],
        [kind |-> "assign", name |-> "assign_success_node_" \o node.id,
         assign |-> AssignResult(node.id, "SUCCESS", node.id \o "_results")] >>],
     except |-> [as |-> "e", steps |-> <<
        [kind |-> "assign", name |-> "assign_error_node_" \o node.id,
         assign |-> AssignResult(node.id, "FAILURE", "e")] >>]]

\* isinstance(self.task, ForLoopTask): always a parallel for sharing results;
\* task.parallel does not appear in the emitted block
LoopStep(node, steps) ==
    [kind |-> "parallel_for", name |-> "loop_" \o node.id,
     parallel |-> [shared |-> <<"results">>,
                   for |-> [value |-> node.task.key,
                            in |-> node.task.iterable,
                            steps |-> steps]]]

\* isinstance(self.task, SetVariablesTask): one assignment per entry of data
SetVariablesStep(node) ==
    [kind |-> "assign_variables", name |-> "set_variables_" \o node.id,
     assign |-> node.task.data]

RECURSIVE get_as_dict(_)
get_as_dict(node) ==
    IF node.task.base
    THEN ExecuteStep(node)
    ELSE IF node.task.type = "ForLoopTask"
         THEN LoopStep(node, [i \in 1..Len(node.task.nodes) |->
                                  get_as_dict(node.task.nodes[i])])
         ELSE SetVariablesStep(node)

(***************************************************************************)
(* compile_to_workflows                                                    *)
(***************************************************************************)
\* a list comprehension with a filter: the elements s[i] with keep[i], in
\* the order of s
RECURSIVE SelectSeqBy(_, _)
SelectSeqBy(s, keep) ==
    IF s = <<>> THEN <<>>
    ELSE (IF keep[1] THEN <<s[1]>> ELSE <<>>)
         \o SelectSeqBy(Tail(s), Tail(keep))

\* a variant that tests edge.source in place of edge.target
InitialNodes_BySource(nodes, edges) ==
    SelectSeqBy(nodes, [i \in 1..Len(nodes) |->
        ~ \E j \in 1..Len(edges) : edges[j].source = nodes[i].id])

\* initial_nodes: nodes without incoming edges
InitialNodes(nodes, edges) ==
    SelectSeqBy(nodes, [i \in 1..Len(nodes) |->
        ~ \E j \in 1..Len(edges) : edges[j].target = nodes[i].id])

\* edges = [edge for edge in data.edges if edge.target == node.id]
IncomingEdges(node, edges) ==
    SelectSeqBy(edges, [j \in 1..Len(edges) |-> edges[j].target = node.id])

InitStep ==
    [kind |-> "init", name |-> "init",
     assign |-> <<"results", "variables", "params">>]

\* a variant that lowers every branch under the id n1
BranchOf_FirstId(node) ==
    [name |-> "branch_" \o node.id,
     steps |-> <<get_as_dict([node EXCEPT !.id = "n1"])>>]

\* one branch of run_initial_nodes
BranchOf(node) ==
    [name |-> "branch_" \o node.id, steps |-> <<get_as_dict(node)>>]

\* a variant without the parallel block
InitialStep_AlwaysInline(initial_nodes) ==
    get_as_dict(initial_nodes[1])

\* the step appended for the initial nodes (len(initial_nodes) >= 1)
InitialStep(initial_nodes) ==
    IF Len(initial_nodes) > 1
    THEN [kind |-> "parallel_branches", name |-> "run_initial_nodes",
          parallel |-> [shared |-> <<"results">>,
                        branches |-> [i \in 1..Len(initial_nodes) |->
                                          BranchOf(initial_nodes[i])]]]
    ELSE get_as_dict(initial_nodes[1])

\* one predicate of the guard: results["<source>"].status == "<condition>"
Predicate(edge) == [source |-> edge.source, status |-> edge.condition]

\* a variant whose guard holds the predicate of the first edge only
create_switch_condition_FirstEdge(node, edges) ==
    [kind |-> "switch", name |-> "switch_" \o node.id,
     switch |-> << [condition |-> <<Predicate(edges[1])>>,
                    steps |-> <<get_as_dict(node)>>] >>]

\* embedded = True; condition is the list of predicates joined by " and "
create_switch_condition(node, edges) ==
    [kind |-> "switch", name |-> "switch_" \o node.id,
     switch |-> << [condition |-> [j \in 1..Len(edges) |-> Predicate(edges[j])],
                    steps |-> <<get_as_dict(node)>>] >>]

\* for node in data.nodes: ... if any(edges): append(create_switch_condition)
RECURSIVE SwitchSteps(_, _)
SwitchSteps(nodes, edges) ==
    IF nodes = <<>> THEN <<>>
    ELSE (IF IncomingEdges(nodes[1], edges) # <<>>
          THEN <<create_switch_condition(nodes[1], IncomingEdges(nodes[1], edges))>>
          ELSE <<>>)
         \o SwitchSteps(Tail(nodes), edges)

EndStep == [kind |-> "return", name |-> "workflow_end", return |-> "results"]

\* workflow["steps"] when the compilation returns
WorkflowSteps(d) ==
    <<InitStep>> \o <<InitialStep(InitialNodes(d.nodes, d.edges))>>
    \o SwitchSteps(d.nodes, d.edges) \o <<EndStep>>


\* the ids handed to get_as_dict by compile_to_workflows, in call order
RECURSIVE Ids(_)
Ids(nodes) == IF nodes = <<>> THEN <<>> ELSE <<nodes[1].id>> \o Ids(Tail(nodes))

LoweredIds(d) ==
    Ids(InitialNodes(d.nodes, d.edges))
    \o Ids(SelectSeqBy(d.nodes, [i \in 1..Len(d.nodes) |->
                                    IncomingEdges(d.nodes[i], d.edges) # <<>>]))

(***************************************************************************)
(* The input universe: Workflow Graphs with unique node ids.  The i-th     *)
(* declared node has the i-th id of IdOrder; an edge may name any declared *)
(* id or the id UnknownId, which no node has.                              *)
(***************************************************************************)
IdOrder == <<"n1", "n2", "n3">>

\* Edge.condition: Literal["SUCCESS", "FAILURE", "SKIPPED"]
ConditionOrder == <<"SUCCESS", "FAILURE", "SKIPPED">>

\* the body of a For-Loop node, as in main(): one Sleep node <id>_n1
LoopBody(id) == <<Node(id \o "_n1", SleepTask)>>

Iterable == [i \in 1..MaxIter |-> i]

TasksOf(id) ==
    {HttpTask, SetVariablesTask([my_var |-> "ok"])}
    \cup {ForLoopTask(LoopBody(id), "my_key", Iterable, p) : p \in {1, MaxParallel}}

\* node lists with at most one node that is not a call node
NodeLists ==
    UNION {{ns \in [1..k -> UNION {{Node(IdOrder[i], t) : t \in TasksOf(IdOrder[i])}
                                    : i \in 1..k}] :
               /\ \A i \in 1..k : ns[i].id = IdOrder[i]
               /\ Cardinality({i \in 1..k : ~ ns[i].task.base}) <= 1}
           : k \in 0..Len(IdOrder)}

Index(seq, x) == CHOOSE i \in 1..Len(seq) : seq[i] = x

\* edge lists are enumerated in one order per edge set
Rank(e, ids) ==
    (Index(ids, e.source) * (Len(ids) + 1) + Index(ids, e.target))
        * (Len(ConditionOrder) + 1) + Index(ConditionOrder, e.condition)

EdgeUniverse(ids) ==
    {Edge(ids[s], ids[t], ConditionOrder[c]) :
        s \in 1..Len(ids), t \in 1..Len(ids), c \in 1..Len(ConditionOrder)}

RECURSIVE EdgeListsOfLen(_, _)
EdgeListsOfLen(k, ids) ==
    IF k = 0 THEN {<<>>}
    ELSE UNION {{Append(es, e) :
                    e \in {x \in EdgeUniverse(ids) :
                              es = <<>> \/ Rank(es[Len(es)], ids) < Rank(x, ids)}}
                : es \in EdgeListsOfLen(k - 1, ids)}

EdgeLists(ids) == UNION {EdgeListsOfLen(k, ids) : k \in 0..MaxEdges}

DeclaredIds(ns) == [i \in 1..Len(ns) |-> ns[i].id]

\* an edge references a node id absent from the graph
HasUnknownReference(d) ==
    \E j \in 1..Len(d.edges) :
        \/ ~ \E i \in 1..Len(d.nodes) : d.nodes[i].id = d.edges[j].source
        \/ ~ \E i \in 1..Len(d.nodes) : d.nodes[i].id = d.edges[j].target

\* the pairs <<s, t>> with a path of edges from s to t
RECURSIVE PathsWithin(_, _)
PathsWithin(d, n) ==
    IF n <= 1
    THEN {<<d.edges[j].source, d.edges[j].target>> : j \in 1..Len(d.edges)}
    ELSE LET shorter == PathsWithin(d, n - 1) IN
         shorter \cup {<<pq[1][1], pq[2][2]>> :
                          pq \in {x \in shorter \X shorter : x[1][2] = x[2][1]}}

Paths(d) == PathsWithin(d, Len(d.edges))

Acyclic(d) == \A p \in Paths(d) : p[1] # p[2]

(***************************************************************************)
(* State                                                                   *)
(*   data           the WorkflowData handed to compile_to_workflows        *)
(*   pc             start, compiled (a program was returned), raised (the  *)
(*                  compilation ended with the exception exc), then        *)
(*                  running, returned or failed for the emitted program    *)
(*   initial_nodes  the local list initial_nodes                           *)
(*   workflow       the dict workflow                                      *)
(*   lowered        the ids of the nodes get_as_dict was called on         *)
(*   threads        the flows of the running program                       *)
(*   results        the shared map results of the running program          *)
(*   error          the error that stopped the running program             *)
(*   returned       the value returned by workflow_end                     *)
(*   writes         history: the pairs <<path of a thread, key of results  *)
(*                  it assigned>>                                          *)
(***************************************************************************)
VARIABLES data, pc, exc, initial_nodes, workflow, lowered,
          threads, results, error, returned, writes

vars == <<data, pc, exc, initial_nodes, workflow, lowered,
          threads, results, error, returned, writes>>

compilerVars == <<data, pc, exc, initial_nodes, workflow, lowered>>

EmptyMap == <<>>

Put(f, k, v) == (k :> v) @@ f

TypeOK ==
    /\ pc \in {"start", "compiled", "raised", "running", "returned", "failed"}
    /\ exc \in {"none", "IndexError"}
    /\ error \in {"none", "KeyError"}

InitWith(d) ==
    /\ data = d
    /\ pc = "start"
    /\ exc = "none"
    /\ initial_nodes = <<>>
    /\ workflow = [params |-> <<"args">>, steps |-> <<>>]
    /\ lowered = <<>>
    /\ threads = {}
    /\ results = EmptyMap
    /\ error = "none"
    /\ returned = EmptyMap
    /\ writes = {}

\* compile_to_workflows(data): initial_nodes[0] raises IndexError when there
\* is no initial node, before get_as_dict is called on any node
Compile ==
    /\ pc = "start"
    /\ initial_nodes' = InitialNodes(data.nodes, data.edges)
    /\ IF Len(InitialNodes(data.nodes, data.edges)) = 0
       THEN /\ pc' = "raised"
            /\ exc' = "IndexError"
            /\ UNCHANGED <<workflow, lowered>>
       ELSE /\ pc' = "compiled"
            /\ exc' = "none"
            /\ workflow' = [params |-> <<"args">>, steps |-> WorkflowSteps(data)]
            /\ lowered' = LoweredIds(data)
    /\ UNCHANGED <<data, threads, results, error, returned, writes>>

\* every graph, edges over the unknown id included
InitCompile ==
    \E ns \in NodeLists :
        \E es \in EdgeLists(Append(DeclaredIds(ns), UnknownId)) :
            InitWith([nodes |-> ns, edges |-> es])

NextCompile == Compile

SpecCompile == InitCompile /\ [][NextCompile]_vars

(***************************************************************************)
(* Execution of the emitted step program.  A thread is the main flow, a    *)
(* branch of run_initial_nodes or an iteration of a loop_<id> block; path  *)
(* names it (the blocks entered, each with the branch or iteration index), *)
(* code is the steps it has still to run, env its own variables            *)
(* (<id>_results, e, the loop variable), tpc its place inside a try block: *)
(* 0 before the call, 1 after the call returned, 2 after it raised.        *)
(* Every emitted step (call_node, assign_*, switch, ...) is one action;    *)
(* steps of different branches and iterations interleave.                  *)
(***************************************************************************)
CallResults == {"response"}

CallErrors == {"error"}

Thread(path, code, env) ==
    [path |-> path, code |-> code, env |-> env, tpc |-> 0, waiting |-> FALSE]

Running(t) ==
    /\ pc = "running"
    /\ error = "none"
    /\ t \in threads
    /\ t.code # <<>>
    /\ ~ t.waiting

IsChild(c, t) ==
    /\ Len(c.path) = Len(t.path) + 1
    /\ SubSeq(c.path, 1, Len(t.path)) = t.path

\* the threads after t has completed the step at the head of its code; a
\* branch or an iteration that has run its last step ends
Advanced(t) ==
    IF t.path # <<>> /\ Tail(t.code) = <<>>
    THEN threads \ {t}
    ELSE (threads \ {t})
         \cup {[t EXCEPT !.code = Tail(t.code), !.tpc = 0, !.waiting = FALSE]}

\* one assignment of an assign list applied to the results map
Assigned(res, a, env) ==
    IF a.expr.type = "empty"
    THEN Put(res, a.key, EmptyMap)
    ELSE Put(res, a.key,
             Put(res[a.key], a.field,
                 IF a.expr.type = "lit" THEN a.expr.val ELSE env[a.expr.val]))

RECURSIVE ApplyAssign(_, _, _)
ApplyAssign(res, assigns, env) ==
    IF assigns = <<>> THEN res
    ELSE ApplyAssign(Assigned(res, assigns[1], env), Tail(assigns), env)

\* the keys of results an assign list writes
AssignKeys(assigns) == {assigns[i].key : i \in 1..Len(assigns)}

\* the guard of a switch condition, its predicates read from left to right;
\* a predicate over a key that results does not hold raises KeyError; with
\* shortCircuit the evaluation stops at the first false predicate
RECURSIVE GuardValue(_, _, _)
GuardValue(preds, res, shortCircuit) ==
    IF preds = <<>> THEN "true"
    ELSE IF preds[1].source \notin DOMAIN res
              \/ "status" \notin DOMAIN res[preds[1].source]
         THEN "KeyError"
         ELSE IF res[preds[1].source].status = preds[1].status
              THEN GuardValue(Tail(preds), res, shortCircuit)
              ELSE IF shortCircuit
                   THEN "false"
                   ELSE IF GuardValue(Tail(preds), res, shortCircuit) = "KeyError"
                        THEN "KeyError"
                        ELSE "false"

\* the valid Workflow Graphs: every edge resolves to declared nodes and the
\* edges form a directed acyclic graph
Init ==
    \E ns \in NodeLists :
        \E es \in EdgeLists(DeclaredIds(ns)) :
            /\ Acyclic([nodes |-> ns, edges |-> es])
            /\ InitWith([nodes |-> ns, edges |-> es])

\* the emitted program is started
StartExecution ==
    /\ pc = "compiled"
    /\ pc' = "running"
    /\ threads' = {Thread(<<>>, workflow.steps, EmptyMap)}
    /\ UNCHANGED <<data, exc, initial_nodes, workflow, lowered, results, error, returned, writes>>

\* init: results = {}
RunInit(t) ==
    /\ Running(t)
    /\ Head(t.code).kind = "init"
    /\ results' = EmptyMap
    /\ threads' = Advanced(t)
    /\ UNCHANGED <<compilerVars, error, returned, writes>>

\* call_node_<id>: the call returns and <id>_results holds its result
CallReturns(t) ==
    /\ Running(t)
    /\ Head(t.code).kind = "try"
    /\ t.tpc = 0
    /\ \E v \in CallResults :
          threads' = (threads \ {t}) \cup
              {[t EXCEPT !.tpc = 1,
                         !.env = Put(t.env, Head(t.code).try.steps[1].result, v)]}
    /\ UNCHANGED <<compilerVars, results, error, returned, writes>>

\* call_node_<id>: the call raises; the except clause binds the error
CallRaises(t) ==
    /\ Running(t)
    /\ Head(t.code).kind = "try"
    /\ t.tpc = 0
    /\ \E e \in CallErrors :
          threads' = (threads \ {t}) \cup
              {[t EXCEPT !.tpc = 2,
                         !.env = Put(t.env, Head(t.code).except.as, e)]}
    /\ UNCHANGED <<compilerVars, results, error, returned, writes>>

\* assign_success_node_<id>
AssignSuccess(t) ==
    /\ Running(t)
    /\ Head(t.code).kind = "try"
    /\ t.tpc = 1
    /\ LET assigns == Head(t.code).try.steps[2].assign IN
          /\ results' = ApplyAssign(results, assigns, t.env)
          /\ writes' = writes \cup {<<t.path, k>> : k \in AssignKeys(assigns)}
    /\ threads' = Advanced(t)
    /\ UNCHANGED <<compilerVars, error, returned>>

\* assign_error_node_<id>
AssignError(t) ==
    /\ Running(t)
    /\ Head(t.code).kind = "try"
    /\ t.tpc = 2
    /\ LET assigns == Head(t.code).except.steps[1].assign IN
          /\ results' = ApplyAssign(results, assigns, t.env)
          /\ writes' = writes \cup {<<t.path, k>> : k \in AssignKeys(assigns)}
    /\ threads' = Advanced(t)
    /\ UNCHANGED <<compilerVars, error, returned>>

\* set_variables_<id>: assigns entries of variables, none of results
SetVariables(t) ==
    /\ Running(t)
    /\ Head(t.code).kind = "assign_variables"
    /\ threads' = Advanced(t)
    /\ UNCHANGED <<compilerVars, results, error, returned, writes>>

\* switch_<id>: the guard holds and the embedded steps run next
SwitchTaken(t) ==
    /\ Running(t)
    /\ Head(t.code).kind = "switch"
    /\ \E sc \in BOOLEAN :
          GuardValue(Head(t.code).switch[1].condition, results, sc) = "true"
    /\ threads' = (threads \ {t}) \cup
          {[t EXCEPT !.code = Head(t.code).switch[1].steps \o Tail(t.code)]}
    /\ UNCHANGED <<compilerVars, results, error, returned, writes>>

\* switch_<id>: the guard is false and the next step runs
SwitchSkipped(t) ==
    /\ Running(t)
    /\ Head(t.code).kind = "switch"
    /\ \E sc \in BOOLEAN :
          GuardValue(Head(t.code).switch[1].condition, results, sc) = "false"
    /\ threads' = Advanced(t)
    /\ UNCHANGED <<compilerVars, results, error, returned, writes>>

\* switch_<id>: the guard reads a key that results does not hold
SwitchKeyError(t) ==
    /\ Running(t)
    /\ Head(t.code).kind = "switch"
    /\ \E sc \in BOOLEAN :
          GuardValue(Head(t.code).switch[1].condition, results, sc) = "KeyError"
    /\ error' = "KeyError"
    /\ pc' = "failed"
    /\ UNCHANGED <<data, exc, initial_nodes, workflow, lowered, threads, results, returned, writes>>

\* run_initial_nodes: every branch starts
EnterBranches(t) ==
    /\ Running(t)
    /\ Head(t.code).kind = "parallel_branches"
    /\ LET branches == Head(t.code).parallel.branches IN
          threads' = (threads \ {t}) \cup {[t EXCEPT !.waiting = TRUE]}
              \cup {Thread(Append(t.path, <<Head(t.code).name, i>>),
                           branches[i].steps, t.env) :
                       i \in {j \in 1..Len(branches) : branches[j].steps # <<>>}}
    /\ UNCHANGED <<compilerVars, results, error, returned, writes>>

\* loop_<id>: the block names no concurrency limit, every iteration starts
EnterLoop(t) ==
    /\ Running(t)
    /\ Head(t.code).kind = "parallel_for"
    /\ LET for == Head(t.code).parallel.for IN
          threads' = (threads \ {t}) \cup {[t EXCEPT !.waiting = TRUE]}
              \cup {Thread(Append(t.path, <<Head(t.code).name, i>>), for.steps,
                           Put(t.env, for.value, for.in[i])) :
                       i \in {j \in 1..Len(for.in) : for.steps # <<>>}}
    /\ UNCHANGED <<compilerVars, results, error, returned, writes>>

\* a parallel block ends when its branches or iterations have ended
Join(t) ==
    /\ pc = "running"
    /\ error = "none"
    /\ t \in threads
    /\ t.waiting
    /\ ~ \E c \in threads : IsChild(c, t)
    /\ threads' = Advanced(t)
    /\ UNCHANGED <<compilerVars, results, error, returned, writes>>

\* workflow_end: return results
Return(t) ==
    /\ Running(t)
    /\ Head(t.code).kind = "return"
    /\ pc' = "returned"
    /\ returned' = results
    /\ threads' = {}
    /\ UNCHANGED <<data, exc, initial_nodes, workflow, lowered, results, error, writes>>

Next ==
    \/ Compile
    \/ StartExecution
    \/ \E t \in threads : RunInit(t)
    \/ \E t \in threads : CallReturns(t)
    \/ \E t \in threads : CallRaises(t)
    \/ \E t \in threads : AssignSuccess(t)
    \/ \E t \in threads : AssignError(t)
    \/ \E t \in threads : SetVariables(t)
    \/ \E t \in threads : SwitchTaken(t)
    \/ \E t \in threads : SwitchSkipped(t)
    \/ \E t \in threads : SwitchKeyError(t)
    \/ \E t \in threads : EnterBranches(t)
    \/ \E t \in threads : EnterLoop(t)
    \/ \E t \in threads : Join(t)
    \/ \E t \in threads : Return(t)

Spec == Init /\ [][Next]_vars

(***************************************************************************)
(* Properties of compile_to_workflows (under SpecCompile)                  *)
(***************************************************************************)
Compiled == pc = "compiled"

CompileEnded == pc \in {"compiled", "raised"}

\* the positions of the nodes whose id is the target of no edge
NoIncoming(d) ==
    {i \in 1..Len(d.nodes) :
        \A j \in 1..Len(d.edges) : d.edges[j].target # d.nodes[i].id}

\* the k-th smallest element of a set of positions
Nth(positions, k) ==
    CHOOSE i \in positions : Cardinality({j \in positions : j <= i}) = k

\* the positions in workflow.steps of the steps with a name
StepsNamed(name) ==
    {k \in 1..Len(workflow.steps) : workflow.steps[k].name = name}

\* C1: when no node lacks an incoming edge (an empty node list included),
\* the compilation ends with an explicit NoInitialNode or CyclicGraph error
\* and no node has been lowered.
C1_NoInitialNodeIsReported ==
    (CompileEnded /\ NoIncoming(data) = {})
        => /\ exc \in {"NoInitialNode", "CyclicGraph"}
           /\ lowered = <<>>

\* C2: the initial nodes computed by the compilation are the nodes whose id
\* is the target of no edge, each once, in the order of the node sequence.
C2_InitialNodesAreTheUntargetedSubsequence ==
    CompileEnded =>
        /\ Len(initial_nodes) = Cardinality(NoIncoming(data))
        /\ \A k \in 1..Len(initial_nodes) :
              initial_nodes[k] = data.nodes[Nth(NoIncoming(data), k)]

C2_Witness ==
    /\ Compiled
    /\ Len(data.nodes) = 3
    /\ initial_nodes = <<data.nodes[1], data.nodes[3]>>

\* C3: in the output every node with incoming edges has exactly one block
\* switch_<id>, with exactly one condition entry whose guard holds one
\* predicate results["<source>"].status == "<condition>" per incoming edge
\* and no other, and whose steps are the lowering of the node; a node with
\* no incoming edge has no switch block.
C3_OneSwitchPerDependentNode ==
    Compiled =>
        \A i \in 1..Len(data.nodes) :
            LET n == data.nodes[i]
                E == {j \in 1..Len(data.edges) : data.edges[j].target = n.id}
                blocks == StepsNamed("switch_" \o n.id)
            IN  IF E = {}
                THEN blocks = {}
                ELSE /\ Cardinality(blocks) = 1
                     /\ \A k \in blocks :
                           LET block == workflow.steps[k] IN
                           /\ block.kind = "switch"
                           /\ Len(block.switch) = 1
                           /\ Len(block.switch[1].condition) = Cardinality(E)
                           /\ {block.switch[1].condition[c] :
                                  c \in 1..Len(block.switch[1].condition)}
                              = {[source |-> data.edges[j].source,
                                  status |-> data.edges[j].condition] : j \in E}
                           /\ block.switch[1].steps = <<get_as_dict(n)>>

C3_Witness ==
    /\ Compiled
    /\ \E k \in 1..Len(workflow.steps) :
          /\ workflow.steps[k].name = "switch_n3"
          /\ workflow.steps[k].switch[1].condition
                = <<[source |-> "n1", status |-> "SUCCESS"],
                    [source |-> "n2", status |-> "FAILURE"]>>

\* the position in workflow.steps of the step that lowers the node id: the
\* step of the initial nodes, or the block switch_<id>
LoweredAt(id) ==
    IF \E k \in 1..Len(initial_nodes) : initial_nodes[k].id = id
    THEN 2
    ELSE CHOOSE k \in 1..Len(workflow.steps) :
            workflow.steps[k].name = "switch_" \o id

\* C4: for an acyclic graph whose edges resolve, whatever the order of the
\* node sequence, the step lowering the source of an edge comes before the
\* switch block of its target.
C4_SwitchBlocksInTopologicalOrder ==
    (Compiled /\ Acyclic(data) /\ ~ HasUnknownReference(data)) =>
        \A j \in 1..Len(data.edges) :
            LoweredAt(data.edges[j].source) < LoweredAt(data.edges[j].target)

\* C6: with one initial node the second step of the output is the lowering
\* of that node (and a graph of one node and no edge gives exactly that step
\* between init and workflow_end, without a switch block); with k >= 2
\* initial nodes it is a parallel block of k branches, the i-th holding the
\* lowering of the i-th initial node, with results in its shared list.
C6_SecondStepFollowsInitialNodeCount ==
    Compiled =>
        LET k == Cardinality(NoIncoming(data))
            second == workflow.steps[2]
        IN  /\ workflow.steps[1].name = "init"
            /\ k = 1 => second = get_as_dict(data.nodes[Nth(NoIncoming(data), 1)])
            /\ (Len(data.nodes) = 1 /\ data.edges = <<>>) =>
                  /\ Len(workflow.steps) = 3
                  /\ workflow.steps[3].name = "workflow_end"
                  /\ \A i \in 1..3 : workflow.steps[i].kind # "switch"
            /\ k >= 2 =>
                  /\ second.kind = "parallel_branches"
                  /\ Len(second.parallel.branches) = k
                  /\ \E x \in 1..Len(second.parallel.shared) :
                        second.parallel.shared[x] = "results"
                  /\ \A i \in 1..k :
                        second.parallel.branches[i].steps
                            = <<get_as_dict(data.nodes[Nth(NoIncoming(data), i)])>>

C6_Witness ==
    /\ Compiled
    /\ Cardinality(NoIncoming(data)) = 2
    /\ Len(data.nodes) = 3
    /\ workflow.steps[2].kind = "parallel_branches"
    /\ Len(workflow.steps[2].parallel.branches) = 2

\* C7: a graph with an edge whose source or target is the id of no node is
\* rejected with UnknownReference before any node is lowered; no program is
\* returned for it.  (Stated for the graphs that have an initial node; the
\* others are the case of C1.)
C7_UnknownReferenceIsReported ==
    (CompileEnded /\ HasUnknownReference(data) /\ NoIncoming(data) # {})
        => /\ exc = "UnknownReference"
           /\ lowered = <<>>
           /\ ~ Compiled

(***************************************************************************)
(* Properties of the execution of the emitted program (under Spec)         *)
(***************************************************************************)
\* the nodes of a node list, the body nodes of For-Loop nodes included
RECURSIVE AllNodes(_)
AllNodes(nodes) ==
    UNION {{nodes[i]} \cup (IF nodes[i].task.type = "ForLoopTask"
                            THEN AllNodes(nodes[i].task.nodes)
                            ELSE {})
           : i \in 1..Len(nodes)}

UniqueIds(d) ==
    \A m, n \in AllNodes(d.nodes) : m.id = n.id => m = n

\* the thread t runs on after completing the step at the head of its code
Continues(t) ==
    /\ error' = "none"
    /\ pc' = "running"
    /\ IF t.path # <<>> /\ Tail(t.code) = <<>>
       THEN ~ \E u \in threads' : u.path = t.path
       ELSE \E u \in threads' : u.path = t.path /\ u.code = Tail(t.code)

\* The step execute_<id> absorbs the outcome of its call: after a call that
\* returned, results[id] is {status: SUCCESS, output: the call's result};
\* after a call that raised, {status: FAILURE, output: the error}; no error
\* is raised to the enclosing scope and the thread goes on to its next step.
ExecuteStepAbsorbsTheOutcome ==
    [][\A t \in threads :
          /\ CallRaises(t) => (error' = "none" /\ pc' = "running")
          /\ AssignSuccess(t) =>
                \E n \in AllNodes(data.nodes) :
                    /\ Head(t.code).name = "execute_" \o n.id
                    /\ t.env[n.id \o "_results"] \in CallResults
                    /\ n.id \in DOMAIN results'
                    /\ results'[n.id] = [status |-> "SUCCESS",
                                         output |-> t.env[n.id \o "_results"]]
                    /\ Continues(t)
          /\ AssignError(t) =>
                \E n \in AllNodes(data.nodes) :
                    /\ Head(t.code).name = "execute_" \o n.id
                    /\ t.env["e"] \in CallErrors
                    /\ n.id \in DOMAIN results'
                    /\ results'[n.id] = [status |-> "FAILURE",
                                         output |-> t.env["e"]]
                    /\ Continues(t)]_vars

\* C5: the step execute_<id> absorbs the outcome of its call (results[id]
\* ends as SUCCESS with the call's result or FAILURE with the error, nothing
\* is raised, the next step runs), and so a program in which an execute step
\* has run is not stopped: it does not end in an error before workflow_end.
C5_ExecuteStepNeverStopsTheProgram ==
    /\ ExecuteStepAbsorbsTheOutcome
    /\ [](writes # {} => pc # "failed")

\* C8: no guard reads an entry of results that has not been written.
C8_GuardsReadOnlyWrittenEntries == error # "KeyError"

\* the keys of results the steps of a list write
RECURSIVE StepKeys(_)
StepKeys(steps) ==
    UNION {IF steps[i].kind = "try"
           THEN AssignKeys(steps[i].try.steps[2].assign)
                \cup AssignKeys(steps[i].except.steps[1].assign)
           ELSE IF steps[i].kind = "parallel_for"
                THEN StepKeys(steps[i].parallel.for.steps)
                ELSE {}
           : i \in 1..Len(steps)}

\* a write made inside a branch of run_initial_nodes
InBranch(w) == Len(w[1]) >= 1 /\ w[1][1][1] = "run_initial_nodes"

C10_IterationsWithinParallelBound ==
    \A t \in threads :
        (t.waiting /\ Head(t.code).kind = "parallel_for") =>
            \A n \in AllNodes(data.nodes) :
                (n.task.type = "ForLoopTask"
                    /\ Head(t.code).name = "loop_" \o n.id)
                => Cardinality({c \in threads : IsChild(c, t)}) <= n.task.parallel

====
